---- MODULE Spec2Model ----
(***************************************************************************)
(* Model of the PDF watermarking scripts pdf-watermark.py and script.py.   *)
(*                                                                         *)
(* Units.  Page widths and heights are whole points.  The bounding box     *)
(* (0.9 * the smallest page width / height) is kept in tenths of a point,  *)
(* so that it is exact; raster sizes are whole pixels; the corners of a    *)
(* placement rectangle are kept in halves of a point, so that the          *)
(* division by 2 of the centering is exact.                                *)
(*                                                                         *)
(* Strings that the code inspects character by character (the color) are   *)
(* sequences of one-character strings.  Python's None is the value None.   *)
(***************************************************************************)
EXTENDS Integers, Sequences, FiniteSets, TLC

VARIABLES
    prog,        \* which script runs: "main" (pdf-watermark.py) or "script" (script.py)
    args,        \* the parsed command line
    pc,          \* position of the run
    failure,     \* the step that raised, "none" while nothing raised
    log,         \* the steps begun so far, in order
    tmpExists,   \* the transient PDF of a Markdown input is on disk
    docOpen,     \* the fitz document handle is open
    pages,       \* page sizes <<width, height>> of the open document
    box,         \* <<max_w, max_h>> in tenths of a point
    text_color,  \* the --text_color string handed to hex_to_rgb
    rgb,         \* the triple hex_to_rgb returned
    wm,          \* size <<width, height>> of the watermark raster
    encodes,     \* number of PNG encodings done
    i,           \* index of the next page of the stamping loop
    inserts,     \* the insert_image calls made, in order
    prior,       \* doc.metadata as read at the merge
    overrides,   \* the six metadata arguments
    meta,        \* the record handed to doc.set_metadata
    outWrites,   \* number of times the output path was written
    saved,       \* content of the output file
    hexInput,    \* codec harness: the string under construction
    hexCalled,   \* codec harness: hex_to_rgb has been applied
    hexResult    \* codec harness: what hex_to_rgb returned

vars == <<prog, args, pc, failure, log, tmpExists, docOpen, pages, box,
          text_color, rgb, wm, encodes, i, inserts, prior, overrides, meta,
          outWrites, saved, hexInput, hexCalled, hexResult>>

pipeVars == <<prog, args, pc, failure, log, tmpExists, docOpen, pages, box,
              text_color, rgb, wm, encodes, i, inserts, prior, overrides,
              meta, outWrites, saved>>

hexVars == <<hexInput, hexCalled, hexResult>>

None == "<None>"

\* truth value of an optional string: None and "" are false
Truthy(v) == v # None /\ v # ""

(***************************************************************************)
(* Bounds of the model.                                                    *)
(***************************************************************************)
MaxPages == 2
MaxLen == 7

(***************************************************************************)
(* hex_to_rgb                                                              *)
(***************************************************************************)
HexValue ==
    [c \in {"0","1","2","3","4","5","6","7","8","9",
            "a","b","c","d","e","f","A","B","C","D","E","F"} |->
        CASE c = "0" -> 0  [] c = "1" -> 1  [] c = "2" -> 2  [] c = "3" -> 3
          [] c = "4" -> 4  [] c = "5" -> 5  [] c = "6" -> 6  [] c = "7" -> 7
          [] c = "8" -> 8  [] c = "9" -> 9
          [] c \in {"a", "A"} -> 10  [] c \in {"b", "B"} -> 11
          [] c \in {"c", "C"} -> 12  [] c \in {"d", "D"} -> 13
          [] c \in {"e", "E"} -> 14  [] c \in {"f", "F"} -> 15]

IsHexDigit(c) == c \in DOMAIN HexValue

\* the whitespace int() strips; the space stands for all of it
Whitespace == {" "}

RECURSIVE LStrip(_, _)
\* str.lstrip(chars): drops every leading character that is in chars
LStrip(s, chars) ==
    IF s # <<>> /\ Head(s) \in chars THEN LStrip(Tail(s), chars) ELSE s

RECURSIVE RStrip(_, _)
RStrip(s, chars) ==
    IF s # <<>> /\ s[Len(s)] \in chars
    THEN RStrip(SubSeq(s, 1, Len(s) - 1), chars) ELSE s

RECURSIVE HexDigitsValue(_)
\* value of a sequence of hex digits, most significant first
HexDigitsValue(s) ==
    IF s = <<>> THEN 0
    ELSE 16 * HexDigitsValue(SubSeq(s, 1, Len(s) - 1)) + HexValue[s[Len(s)]]

\* int(s, 16) for the slices hex_to_rgb takes (at most two characters, so
\* neither a "0x" prefix nor an underscore can be part of a valid literal):
\* surrounding whitespace is ignored, then an optional sign, then digits.
PyInt16(s) ==
    LET t == RStrip(LStrip(s, Whitespace), Whitespace)
        signed == t # <<>> /\ Head(t) \in {"+", "-"}
        digits == IF signed THEN Tail(t) ELSE t
        valid == digits # <<>> /\ \A k \in 1..Len(digits) : IsHexDigit(digits[k])
    IN  IF ~valid THEN [ok |-> FALSE, value |-> 0]
        ELSE [ok |-> TRUE,
              value |-> IF signed /\ Head(t) = "-"
                        THEN 0 - HexDigitsValue(digits)
                        ELSE HexDigitsValue(digits)]

\* hex_color[a : b] for 0 <= a <= b (Python slice, 0-based, end exclusive)
Slice(s, a, b) ==
    SubSeq(s, a + 1, IF b < Len(s) THEN b ELSE Len(s))

hex_to_rgb(hex_color) ==
    LET h == LStrip(hex_color, {"#"})
        r == PyInt16(Slice(h, 0, 2))
        g == PyInt16(Slice(h, 2, 4))
        b == PyInt16(Slice(h, 4, 6))
    IN  IF Len(h) # 6 THEN [ok |-> FALSE, rgb |-> <<>>]
        ELSE IF ~(r.ok /\ g.ok /\ b.ok) THEN [ok |-> FALSE, rgb |-> <<>>]
        ELSE [ok |-> TRUE, rgb |-> <<r.value, g.value, b.value>>]

(***************************************************************************)
(* Geometry: bounding box, rasters, placement                              *)
(***************************************************************************)
BoxNum == 9
BoxDen == 10
ShadowOffset == 5

MinOf(S) == CHOOSE x \in S : \A y \in S : x <= y

\* max_w, max_h = min(page widths) * 0.9, min(page heights) * 0.9, in tenths
Bounds(pgs) ==
    <<MinOf({pgs[k][1] : k \in 1..Len(pgs)}) * BoxNum,
      MinOf({pgs[k][2] : k \in 1..Len(pgs)}) * BoxNum>>

\* variant: the box rounded to the nearest pixel instead of truncated
TextCanvas_Round(bx) ==
    <<(bx[1] + BoxDen \div 2) \div BoxDen, (bx[2] + BoxDen \div 2) \div BoxDen>>

\* Image.new("RGBA", (int(max_width), int(max_height)), ...): the size of the
\* canvas create_text_image returns
TextCanvas(bx) == <<bx[1] \div BoxDen, bx[2] \div BoxDen>>

Abs(n) == IF n < 0 THEN 0 - n ELSE n

Max2(a, b) == IF a >= b THEN a ELSE b

\* Image.thumbnail(size): size is floored; an image that already fits is left
\* alone; otherwise one side is kept and the other becomes the whole number
\* (floor or ceiling, at least 1) whose aspect ratio is nearest the image's.
Thumbnail(img, bx) ==
    LET x == bx[1] \div BoxDen
        y == bx[2] \div BoxDen
        iw == img[1]
        ih == img[2]
        \* nearest of floor and ceiling of num/den; keyF and keyC are the
        \* distances of the two candidates, floor is kept on a tie
        Pick(fl, ce, keyF, keyC) == Max2(IF keyF <= keyC THEN fl ELSE ce, 1)
        fx == (y * iw) \div ih
        cx == IF (y * iw) % ih = 0 THEN fx ELSE fx + 1
        fy == (x * ih) \div iw
        cy == IF (x * ih) % iw = 0 THEN fy ELSE fy + 1
    IN  IF x >= iw /\ y >= ih THEN img
        ELSE IF x * ih >= iw * y
        THEN <<Pick(fx, cx, Abs(iw * y - fx * ih), Abs(iw * y - cx * ih)), y>>
        ELSE <<x, Pick(fy, cy,
                       IF fy = 0 THEN 0 ELSE Abs(iw * fy - x * ih) * cy,
                       Abs(iw * cy - x * ih) * fy)>>

\* sh = Image.new("RGBA", (wm.width + off, wm.height + off), ...); wm = sh
WithShadow(sz) == <<sz[1] + ShadowOffset, sz[2] + ShadowOffset>>

\* variant: every page centered by the first page's dimensions
CenterRect_FirstPage(page, sz) ==
    LET x == pages[1][1] - sz[1]
        y == pages[1][2] - sz[2]
    IN  <<x, y, x + 2 * sz[1], y + 2 * sz[2]>>

\* x = (r.width - w) / 2; y = (r.height - h) / 2; Rect(x, y, x + w, y + h),
\* every coordinate in halves of a point
CenterRect(page, sz) ==
    LET x == page[1] - sz[1]
        y == page[2] - sz[2]
    IN  <<x, y, x + 2 * sz[1], y + 2 * sz[2]>>

(***************************************************************************)
(* Metadata                                                                *)
(***************************************************************************)
MetaKeys == {"title", "author", "subject", "keywords", "creator", "producer"}

\* variant: "if val:" in place of "if val is not None:"
MergeMeta_Truthy(m, ov) ==
    [k \in DOMAIN m |-> IF k \in DOMAIN ov /\ Truthy(ov[k]) THEN ov[k] ELSE m[k]]

\* for key, val in {...}.items(): if val is not None: meta[key] = val
MergeMeta(m, ov) ==
    [k \in DOMAIN m |-> IF k \in DOMAIN ov /\ ov[k] # None THEN ov[k] ELSE m[k]]

(***************************************************************************)
(* Inputs explored                                                         *)
(***************************************************************************)
DefaultPage == <<595, 842>>

PageSizes == {<<40, 60>>, <<60, 40>>, <<45, 45>>, DefaultPage}

\* documents an --input_pdf may hold: 0..MaxPages pages
Docs == UNION {[1..n -> PageSizes] : n \in 0..MaxPages}

\* documents create_pdf_from_markdown produces: at least one default page
RenderedDocs == {[k \in 1..n |-> DefaultPage] : n \in 1..MaxPages}

ImageSizes == {<<100, 50>>, <<30, 30>>, <<20, 60>>}

Colors == {<<"#", "1", "F", "1", "F", "1", "F">>,
           <<"1", "F">>,
           <<"g", "g", "g", "g", "g", "g">>,
           <<"-", "1", "-", "1", "-", "1">>}

NoOverrides == [k \in MetaKeys |-> None]

AllOverrides == [MetaKeys -> {None, "", "new"}]

FewOverrides ==
    {NoOverrides,
     [NoOverrides EXCEPT !["title"] = "new"],
     [k \in MetaKeys |-> ""]}

Priors ==
    {[k \in MetaKeys \cup {"format"} |-> IF k = "format" THEN "PDF 1.7" ELSE "old"],
     [k \in MetaKeys \cup {"format"} |->
        IF k = "format" THEN "PDF 1.7"
        ELSE IF k \in {"title", "subject", "creator"} THEN "" ELSE "old"]}

\* every combination of the six overrides is explored on one-page documents,
\* a few representative ones on the others
OverridesFor(pgs) == IF Len(pgs) = 1 THEN AllOverrides ELSE FewOverrides

Alphabet == {"#", "1", "F", "g", "-", " "}

(***************************************************************************)
(* Initial states                                                          *)
(***************************************************************************)
NoSaved == [pages |-> 0, inserts |-> <<>>, meta |-> <<>>]

MainArgs ==
    [input_pdf : {None, "in.pdf"},
     markdown : {None, "in.md"},
     watermark_image : {None, "logo.png"},
     watermark_text : {None, "", "DRAFT"},
     shadow : BOOLEAN]

\* script.py takes its three paths as required positionals
ScriptArgs ==
    [input_pdf : {"in.pdf"},
     markdown : {None},
     watermark_image : {"logo.png"},
     watermark_text : {None},
     shadow : BOOLEAN]

PipeIdle ==
    /\ failure = "none"
    /\ log = <<>>
    /\ tmpExists = FALSE
    /\ docOpen = FALSE
    /\ pages = <<>>
    /\ box = <<0, 0>>
    /\ text_color = <<>>
    /\ rgb = <<>>
    /\ wm = <<0, 0>>
    /\ encodes = 0
    /\ i = 0
    /\ inserts = <<>>
    /\ prior = <<>>
    /\ overrides = <<>>
    /\ meta = <<>>
    /\ outWrites = 0
    /\ saved = NoSaved

HexIdle ==
    /\ hexInput = <<>>
    /\ hexCalled = FALSE
    /\ hexResult = [ok |-> FALSE, rgb |-> <<>>]

Init ==
    /\ \/ prog = "main" /\ args \in MainArgs
       \/ prog = "script" /\ args \in ScriptArgs
    /\ pc = "parse"
    /\ PipeIdle
    /\ HexIdle

(***************************************************************************)
(* pdf-watermark.py: the command line                                      *)
(***************************************************************************)
\* input_group = parser.add_mutually_exclusive_group(required=True)
InputGroupOk(a) == (a.input_pdf # None) # (a.markdown # None)

\* variant: a required group that is not mutually exclusive
WmGroupOk_AtLeastOne(a) == a.watermark_image # None \/ a.watermark_text # None

\* wm_group = parser.add_mutually_exclusive_group(required=True)
WmGroupOk(a) == (a.watermark_image # None) # (a.watermark_text # None)

\* an exception inside add_watermark unwinds to the finally block of __main__
Raise(kind) ==
    /\ failure' = kind
    /\ pc' = "finally"

\* args = parser.parse_args(): a violated group ends the process (exit
\* status 2) before any other statement of the script runs
ParseArgs ==
    /\ prog = "main"
    /\ pc = "parse"
    /\ pc' = IF InputGroupOk(args) /\ WmGroupOk(args) THEN "resolve" ELSE "rejected"
    /\ UNCHANGED <<prog, args, failure, log, tmpExists, docOpen, pages, box,
                   text_color, rgb, wm, encodes, i, inserts, prior, overrides,
                   meta, outWrites, saved, hexVars>>

\* if args.markdown: tmp_pdf = tempfile.NamedTemporaryFile(..., delete=False).name
ResolveInput ==
    /\ prog = "main"
    /\ pc = "resolve"
    /\ IF Truthy(args.markdown)
       THEN /\ tmpExists' = TRUE
            /\ log' = Append(log, "mktemp")
            /\ pc' = "render"
       ELSE /\ pc' = "open"
            /\ UNCHANGED <<tmpExists, log>>
    /\ UNCHANGED <<prog, args, failure, docOpen, pages, box, text_color, rgb,
                   wm, encodes, i, inserts, prior, overrides, meta, outWrites,
                   saved, hexVars>>

\* create_pdf_from_markdown(args.markdown, tmp_pdf), called before the try
\* statement: when it raises (the Markdown file is missing or is not UTF-8)
\* the process ends with the traceback and the finally block is never entered
RenderMarkdown ==
    /\ prog = "main"
    /\ pc = "render"
    /\ log' = Append(log, "render")
    /\ \/ /\ pc' = "open"
          /\ UNCHANGED failure
       \/ /\ pc' = "failed"
          /\ failure' = "render"
    /\ UNCHANGED <<prog, args, tmpExists, docOpen, pages, box, text_color, rgb,
                   wm, encodes, i, inserts, prior, overrides, meta, outWrites,
                   saved, hexVars>>

(***************************************************************************)
(* pdf-watermark.py: add_watermark                                         *)
(***************************************************************************)
\* doc = fitz.open(input_pdf)
OpenDocument ==
    /\ prog = "main"
    /\ pc = "open"
    /\ log' = Append(log, "open")
    /\ \/ /\ \E d \in (IF Truthy(args.markdown) THEN RenderedDocs ELSE Docs) :
                pages' = d
          /\ docOpen' = TRUE
          /\ pc' = "bounds"
          /\ UNCHANGED failure
       \/ /\ ~Truthy(args.markdown)
          /\ Raise("open")
          /\ UNCHANGED <<pages, docOpen>>
    /\ UNCHANGED <<prog, args, tmpExists, box, text_color, rgb, wm, encodes, i,
                   inserts, prior, overrides, meta, outWrites, saved, hexVars>>

\* max_w = min(p.rect.width for p in doc) * 0.9, and max_h; min() of no page
\* raises ValueError.  Then the branch on watermark_text.
ComputeBounds ==
    /\ prog = "main"
    /\ pc = "bounds"
    /\ log' = Append(log, "bounds")
    /\ IF pages = <<>>
       THEN /\ Raise("bounds")
            /\ UNCHANGED box
       ELSE /\ box' = Bounds(pages)
            /\ pc' = IF Truthy(args.watermark_text) THEN "color" ELSE "image"
            /\ UNCHANGED failure
    /\ UNCHANGED <<prog, args, tmpExists, docOpen, pages, text_color, rgb, wm,
                   encodes, i, inserts, prior, overrides, meta, outWrites,
                   saved, hexVars>>

\* variant: a rejected color is reported and black is used instead
ParseColor_Fallback ==
    /\ prog = "main"
    /\ pc = "color"
    /\ log' = Append(log, "color")
    /\ \E c \in Colors :
        /\ text_color' = c
        /\ IF hex_to_rgb(c).ok
           THEN /\ rgb' = hex_to_rgb(c).rgb
                /\ UNCHANGED failure
           ELSE /\ rgb' = <<0, 0, 0>>
                /\ failure' = "color"
    /\ pc' = "text"
    /\ UNCHANGED <<prog, args, tmpExists, docOpen, pages, box, wm, encodes, i,
                   inserts, prior, overrides, meta, outWrites, saved, hexVars>>

\* rgb = hex_to_rgb(text_color)
ParseColor ==
    /\ prog = "main"
    /\ pc = "color"
    /\ log' = Append(log, "color")
    /\ \E c \in Colors :
        /\ text_color' = c
        /\ IF hex_to_rgb(c).ok
           THEN /\ rgb' = hex_to_rgb(c).rgb
                /\ pc' = "text"
                /\ UNCHANGED failure
           ELSE /\ Raise("color")
                /\ UNCHANGED rgb
    /\ UNCHANGED <<prog, args, tmpExists, docOpen, pages, box, wm, encodes, i,
                   inserts, prior, overrides, meta, outWrites, saved, hexVars>>

\* wm = create_text_image(...): the canvas is allocated, then a --font_path
\* that is no file raises FileNotFoundError (one that is no font, OSError);
\* without --font_path the bundled font or the built-in one is used
RenderText ==
    /\ prog = "main"
    /\ pc = "text"
    /\ log' = Append(log, "raster")
    /\ \E font_path \in {None, "font.ttf"}, loads \in BOOLEAN :
        IF Truthy(font_path) /\ ~loads
        THEN /\ Raise("font")
             /\ UNCHANGED wm
        ELSE /\ wm' = TextCanvas(box)
             /\ pc' = "encode"
             /\ UNCHANGED failure
    /\ UNCHANGED <<prog, args, tmpExists, docOpen, pages, box, text_color, rgb,
                   encodes, i, inserts, prior, overrides, meta, outWrites,
                   saved, hexVars>>

\* wm = Image.open(watermark_image).convert("RGBA"); wm.thumbnail(...);
\* opacity; shadow.  Image.open raises for None, a missing file, a file that
\* is no image.
RasterizeImage ==
    /\ prog = "main"
    /\ pc = "image"
    /\ log' = Append(log, "raster")
    /\ \/ /\ args.watermark_image # None
          /\ \E img \in ImageSizes :
                wm' = IF args.shadow THEN WithShadow(Thumbnail(img, box))
                      ELSE Thumbnail(img, box)
          /\ pc' = "encode"
          /\ UNCHANGED failure
       \/ /\ Raise("image")
          /\ UNCHANGED wm
    /\ UNCHANGED <<prog, args, tmpExists, docOpen, pages, box, text_color, rgb,
                   encodes, i, inserts, prior, overrides, meta, outWrites,
                   saved, hexVars>>

\* bio = io.BytesIO(); wm.save(bio, format="PNG"); wm_bytes = bio.getvalue()
EncodePng ==
    /\ prog = "main"
    /\ pc = "encode"
    /\ log' = Append(log, "encode")
    /\ encodes' = encodes + 1
    /\ i' = 1
    /\ pc' = "stamp"
    /\ UNCHANGED <<prog, args, failure, tmpExists, docOpen, pages, box,
                   text_color, rgb, wm, inserts, prior, overrides, meta,
                   outWrites, saved, hexVars>>

\* one iteration of: for page in doc: ... page.insert_image(Rect, stream=wm_bytes)
StampPage ==
    /\ prog = "main"
    /\ pc = "stamp"
    /\ i <= Len(pages)
    /\ log' = Append(log, "stamp")
    /\ inserts' = Append(inserts,
                         [page |-> i, rect |-> CenterRect(pages[i], wm),
                          stream |-> encodes])
    /\ i' = i + 1
    /\ UNCHANGED <<prog, args, pc, failure, tmpExists, docOpen, pages, box,
                   text_color, rgb, wm, encodes, prior, overrides, meta,
                   outWrites, saved, hexVars>>

\* meta = doc.metadata; the six overrides; doc.set_metadata(meta)
MergeMetadata ==
    /\ prog = "main"
    /\ pc = "stamp"
    /\ i > Len(pages)
    /\ log' = Append(log, "meta")
    /\ \E m \in Priors, ov \in OverridesFor(pages) :
        /\ prior' = m
        /\ overrides' = ov
        /\ meta' = MergeMeta(m, ov)
    /\ pc' = "save"
    /\ UNCHANGED <<prog, args, failure, tmpExists, docOpen, pages, box,
                   text_color, rgb, wm, encodes, i, inserts, outWrites, saved,
                   hexVars>>

\* doc.save(output_pdf): raises when the path cannot be written
SaveDocument ==
    /\ prog = "main"
    /\ pc = "save"
    /\ log' = Append(log, "save")
    /\ \/ /\ outWrites' = outWrites + 1
          /\ saved' = [pages |-> Len(pages), inserts |-> inserts, meta |-> meta]
          /\ pc' = "close"
          /\ UNCHANGED failure
       \/ /\ Raise("save")
          /\ UNCHANGED <<outWrites, saved>>
    /\ UNCHANGED <<prog, args, tmpExists, docOpen, pages, box, text_color, rgb,
                   wm, encodes, i, inserts, prior, overrides, meta, hexVars>>

\* doc.close(); print(...)
CloseDocument ==
    /\ prog = "main"
    /\ pc = "close"
    /\ log' = Append(log, "close")
    /\ docOpen' = FALSE
    /\ pc' = "finally"
    /\ UNCHANGED <<prog, args, failure, tmpExists, pages, box, text_color, rgb,
                   wm, encodes, i, inserts, prior, overrides, meta, outWrites,
                   saved, hexVars>>

\* finally: if args.markdown: os.remove(tmp_pdf)
Finally ==
    /\ prog = "main"
    /\ pc = "finally"
    /\ IF Truthy(args.markdown)
       THEN /\ tmpExists' = FALSE
            /\ log' = Append(log, "remove")
       ELSE UNCHANGED <<tmpExists, log>>
    /\ pc' = IF failure = "none" THEN "done" ELSE "failed"
    /\ UNCHANGED <<prog, args, failure, docOpen, pages, box, text_color, rgb,
                   wm, encodes, i, inserts, prior, overrides, meta, outWrites,
                   saved, hexVars>>

(***************************************************************************)
(* script.py: the image-only script.  It has no try statement: an exception *)
(* ends the process where it is raised.                                    *)
(***************************************************************************)
ScriptRaise(kind) ==
    /\ failure' = kind
    /\ pc' = "failed"

\* args = parser.parse_args(); add_watermark(args.input_pdf, ...)
ScriptParseArgs ==
    /\ prog = "script"
    /\ pc = "parse"
    /\ pc' = "s_open"
    /\ UNCHANGED <<prog, args, failure, log, tmpExists, docOpen, pages, box,
                   text_color, rgb, wm, encodes, i, inserts, prior, overrides,
                   meta, outWrites, saved, hexVars>>

\* doc = fitz.open(input_pdf)
ScriptOpenDocument ==
    /\ prog = "script"
    /\ pc = "s_open"
    /\ log' = Append(log, "open")
    /\ \/ /\ \E d \in Docs : pages' = d
          /\ docOpen' = TRUE
          /\ pc' = "s_image"
          /\ UNCHANGED failure
       \/ /\ ScriptRaise("open")
          /\ UNCHANGED <<pages, docOpen>>
    /\ UNCHANGED <<prog, args, tmpExists, box, text_color, rgb, wm, encodes, i,
                   inserts, prior, overrides, meta, outWrites, saved, hexVars>>

\* img = Image.open(watermark_image).convert("RGBA")
ScriptOpenImage ==
    /\ prog = "script"
    /\ pc = "s_image"
    /\ log' = Append(log, "image")
    /\ \/ /\ \E img \in ImageSizes : wm' = img
          /\ pc' = "s_resize"
          /\ UNCHANGED failure
       \/ /\ ScriptRaise("image")
          /\ UNCHANGED wm
    /\ UNCHANGED <<prog, args, tmpExists, docOpen, pages, box, text_color, rgb,
                   encodes, i, inserts, prior, overrides, meta, outWrites,
                   saved, hexVars>>

\* max_width, max_height = min(...) * 0.9; img.thumbnail((max_width, max_height))
ScriptResize ==
    /\ prog = "script"
    /\ pc = "s_resize"
    /\ log' = Append(log, "bounds")
    /\ IF pages = <<>>
       THEN /\ ScriptRaise("bounds")
            /\ UNCHANGED <<box, wm>>
       ELSE /\ box' = Bounds(pages)
            /\ wm' = Thumbnail(wm, Bounds(pages))
            /\ pc' = "s_shadow"
            /\ UNCHANGED failure
    /\ UNCHANGED <<prog, args, tmpExists, docOpen, pages, text_color, rgb,
                   encodes, i, inserts, prior, overrides, meta, outWrites,
                   saved, hexVars>>

\* transparency, then: if shadow: shadow_img = Image.new("RGBA",
\* (img.width + shadow_offset, img.height + shadow_offset), ...); img = shadow_img
ScriptShadow ==
    /\ prog = "script"
    /\ pc = "s_shadow"
    /\ log' = Append(log, "raster")
    /\ wm' = IF args.shadow THEN WithShadow(wm) ELSE wm
    /\ pc' = "s_encode"
    /\ UNCHANGED <<prog, args, failure, tmpExists, docOpen, pages, box,
                   text_color, rgb, encodes, i, inserts, prior, overrides,
                   meta, outWrites, saved, hexVars>>

\* img_byte_arr = io.BytesIO(); img.save(img_byte_arr, format="PNG")
ScriptEncode ==
    /\ prog = "script"
    /\ pc = "s_encode"
    /\ log' = Append(log, "encode")
    /\ encodes' = encodes + 1
    /\ i' = 1
    /\ pc' = "s_stamp"
    /\ UNCHANGED <<prog, args, failure, tmpExists, docOpen, pages, box,
                   text_color, rgb, wm, inserts, prior, overrides, meta,
                   outWrites, saved, hexVars>>

\* one iteration of: for page in doc: ...
\* page.insert_image(img_rect, stream=img_byte_arr.getvalue())
ScriptStampPage ==
    /\ prog = "script"
    /\ pc = "s_stamp"
    /\ i <= Len(pages)
    /\ log' = Append(log, "stamp")
    /\ inserts' = Append(inserts,
                         [page |-> i, rect |-> CenterRect(pages[i], wm),
                          stream |-> encodes])
    /\ i' = i + 1
    /\ UNCHANGED <<prog, args, pc, failure, tmpExists, docOpen, pages, box,
                   text_color, rgb, wm, encodes, prior, overrides, meta,
                   outWrites, saved, hexVars>>

\* doc.save(output_pdf)
ScriptSave ==
    /\ prog = "script"
    /\ pc = "s_stamp"
    /\ i > Len(pages)
    /\ log' = Append(log, "save")
    /\ \/ /\ outWrites' = outWrites + 1
          /\ saved' = [pages |-> Len(pages), inserts |-> inserts, meta |-> meta]
          /\ pc' = "s_close"
          /\ UNCHANGED failure
       \/ /\ ScriptRaise("save")
          /\ UNCHANGED <<outWrites, saved>>
    /\ UNCHANGED <<prog, args, tmpExists, docOpen, pages, box, text_color, rgb,
                   wm, encodes, i, inserts, prior, overrides, meta, hexVars>>

\* doc.close(); print(...)
ScriptClose ==
    /\ prog = "script"
    /\ pc = "s_close"
    /\ log' = Append(log, "close")
    /\ docOpen' = FALSE
    /\ pc' = "done"
    /\ UNCHANGED <<prog, args, failure, tmpExists, pages, box, text_color, rgb,
                   wm, encodes, i, inserts, prior, overrides, meta, outWrites,
                   saved, hexVars>>

Next ==
    \/ ParseArgs
    \/ ResolveInput
    \/ RenderMarkdown
    \/ OpenDocument
    \/ ComputeBounds
    \/ ParseColor
    \/ RenderText
    \/ RasterizeImage
    \/ EncodePng
    \/ StampPage
    \/ MergeMetadata
    \/ SaveDocument
    \/ CloseDocument
    \/ Finally
    \/ ScriptParseArgs
    \/ ScriptOpenDocument
    \/ ScriptOpenImage
    \/ ScriptResize
    \/ ScriptShadow
    \/ ScriptEncode
    \/ ScriptStampPage
    \/ ScriptSave
    \/ ScriptClose

Spec == Init /\ [][Next]_vars

(***************************************************************************)
(* hex_to_rgb on its own: a string over Alphabet is built one character at *)
(* a time and the function is applied to it.                               *)
(***************************************************************************)
InitColor ==
    /\ prog = "main"
    /\ args = [input_pdf |-> "in.pdf", markdown |-> None,
               watermark_image |-> None, watermark_text |-> "DRAFT",
               shadow |-> FALSE]
    /\ pc = "codec"
    /\ PipeIdle
    /\ HexIdle

TypeChar ==
    /\ pc = "codec"
    /\ ~hexCalled
    /\ Len(hexInput) < MaxLen
    /\ \E c \in Alphabet : hexInput' = Append(hexInput, c)
    /\ UNCHANGED <<hexCalled, hexResult, pipeVars>>

CallHexToRgb ==
    /\ pc = "codec"
    /\ ~hexCalled
    /\ hexCalled' = TRUE
    /\ hexResult' = hex_to_rgb(hexInput)
    /\ UNCHANGED <<hexInput, pipeVars>>

NextColor == TypeChar \/ CallHexToRgb

SpecColor == InitColor /\ [][NextColor]_vars

(***************************************************************************)
(* Properties                                                              *)
(***************************************************************************)
Terminated == pc \in {"done", "failed", "rejected"}

Range(f) == {f[k] : k \in DOMAIN f}

Count(seq, x) == Cardinality({k \in DOMAIN seq : seq[k] = x})

\* the format of the claim on colors: one optional leading '#', then exactly
\* six hex digits
WellFormedHex(s) ==
    LET t == IF s # <<>> /\ Head(s) = "#" THEN Tail(s) ELSE s
    IN  Len(t) = 6 /\ \A k \in 1..Len(t) : IsHexDigit(t[k])

C2_TransientRemoved ==
    (Terminated /\ prog = "main" /\ args.markdown # None) => ~tmpExists

\* C3: when neither or both of --watermark_image and --watermark_text are
\* given, the run is rejected before anything else happens: no step is begun,
\* no transient file is made, no document is opened, no output is written.
C3_BadSelectionRejectedFirst ==
    LET neither == args.watermark_image = None /\ args.watermark_text = None
        both == args.watermark_image # None /\ args.watermark_text # None
    IN  (neither \/ both) =>
            /\ pc \in {"parse", "rejected"}
            /\ log = <<>>
            /\ ~tmpExists
            /\ ~docOpen
            /\ outWrites = 0
            /\ saved = NoSaved

C3_Witness ==
    /\ pc = "rejected"
    /\ args.watermark_image # None
    /\ args.watermark_text # None
    /\ (args.input_pdf # None) # (args.markdown # None)

\* C4: hex_to_rgb returns no triple for a string that is not, after one
\* optional leading '#', exactly six hex digits.
C4_MalformedRejected ==
    (hexCalled /\ ~WellFormedHex(hexInput)) => ~hexResult.ok

\* C5: in the saved document each of the six metadata keys holds the override
\* when one was supplied (the empty string included) and the document's prior
\* value when none was.
C5_SparseMerge ==
    (prog = "main" /\ outWrites = 1) =>
        \A k \in MetaKeys :
            saved.meta[k] = IF overrides[k] = None THEN prior[k] ELSE overrides[k]

C5_Witness ==
    /\ prog = "main"
    /\ outWrites = 1
    /\ overrides["title"] = ""
    /\ overrides["author"] = None
    /\ overrides["subject"] = "new"
    /\ prior["title"] = "old"
    /\ saved.meta["title"] = ""
    /\ saved.meta["author"] = "old"

\* C6: the encoded raster is no wider and no taller than any page of the
\* document, and every placement rectangle lies inside its page.
C6_RasterFitsEveryPage ==
    encodes >= 1 =>
        /\ \A k \in 1..Len(pages) : wm[1] <= pages[k][1] /\ wm[2] <= pages[k][2]
        /\ \A k \in 1..Len(inserts) :
              LET r == inserts[k].rect
                  p == pages[inserts[k].page]
              IN  r[1] >= 0 /\ r[2] >= 0 /\ r[3] <= 2 * p[1] /\ r[4] <= 2 * p[2]

\* the raster create_text_image returned
TextRasterMade ==
    prog = "main" /\ Truthy(args.watermark_text) /\ wm # <<0, 0>>

\* the box is 0.9 * the smallest page width and height (in tenths)
BoxIsNineTenthsOfSmallest ==
    /\ \E k \in 1..Len(pages) : box[1] = 9 * pages[k][1]
    /\ \E k \in 1..Len(pages) : box[2] = 9 * pages[k][2]
    /\ \A k \in 1..Len(pages) : box[1] <= 9 * pages[k][1] /\ box[2] <= 9 * pages[k][2]

C8_StampEveryPageOnce ==
    /\ encodes <= 1
    /\ Len(inserts) <= Len(pages)
    /\ \A k \in 1..Len(inserts) :
          LET r == inserts[k].rect
              p == pages[k]
          IN  /\ inserts[k].page = k
              /\ r[1] = p[1] - wm[1]
              /\ r[2] = p[2] - wm[2]
              /\ r[3] = r[1] + 2 * wm[1]
              /\ r[4] = r[2] + 2 * wm[2]
              /\ inserts[k].stream = 1
              /\ encodes = 1
    /\ (Range(log) \cap {"meta", "save"} # {} => Len(inserts) = Len(pages))
    /\ (outWrites = 1 => saved.inserts = inserts /\ saved.pages = Len(pages))

C8_Witness ==
    /\ pc = "done"
    /\ Len(pages) = 2
    /\ pages[1] # pages[2]
    /\ Len(saved.inserts) = 2
    /\ saved.inserts[1].rect # saved.inserts[2].rect

\* the steps of add_watermark begun so far, in order
PipelineSteps ==
    SelectSeq(log, LAMBDA x : x \in {"color", "raster", "encode", "stamp", "meta", "save"})

ExpectedSteps ==
    (IF Truthy(args.watermark_text) THEN <<"color">> ELSE <<>>)
        \o <<"raster", "encode">>
        \o [k \in 1..Len(pages) |-> "stamp"]
        \o <<"meta", "save">>

IsPrefix(s, t) == Len(s) <= Len(t) /\ s = SubSeq(t, 1, Len(s))

\* the order of C9 alone: color (text mode only), raster, encode, one stamp
\* per page, merge, save
C9_OrderOnly ==
    prog = "main" => IsPrefix(PipelineSteps, ExpectedSteps)

\* C9: the steps occur in the fixed order, the color is parsed only in text
\* mode, and no raster work begins for a malformed color.
C9_FixedOrderColorFirst ==
    prog = "main" =>
        /\ IsPrefix(PipelineSteps, ExpectedSteps)
        /\ ("color" \in Range(log) => Truthy(args.watermark_text))
        /\ (("color" \in Range(log) /\ ~WellFormedHex(text_color)) =>
                "raster" \notin Range(log))

\* C10: the document opened by add_watermark is closed when the run has ended.
C10_DocumentClosed ==
    Terminated => ~docOpen

====
